---- MODULE Spec2Model ----
(***************************************************************************)
(* Box drawing utilities of textual (src/textual/_box_drawing.py).         *)
(*                                                                         *)
(* A quad <<top, right, bottom, left>> gives the line style radiating from *)
(* the centre of a glyph in each direction: 0 no line, 1 thin, 2 heavy,    *)
(* 3 double.  BOX_CHARACTERS maps quads to glyphs; combine_quads merges a  *)
(* new quad onto an existing one and is memoized by functools.lru_cache.   *)
(*                                                                         *)
(* A Python str is modelled as the sequence of its code points, so that    *)
(* "one character" is a statement the table can fail.                      *)
(***************************************************************************)
EXTENDS Integers, Sequences, FiniteSets

VARIABLES
    pc,      \* position of the caller: "idle", "combined" or "painted"
    box1,    \* first argument of the most recent combine_quads call
    box2,    \* second argument of the most recent combine_quads call
    result,  \* value returned by the most recent combine_quads call
    outcome, \* how the cache served that call: "none", "hit", "miss", "evict"
    cache,   \* lru_cache contents, least recently used first: <<key, value>> records
    glyph,   \* outcome of the most recent BOX_CHARACTERS lookup
    base,    \* quad the current cell started with
    drawn,   \* overlays merged onto the current cell so far, oldest first
    cell,    \* current quad of the cell
    calls    \* every combine_quads call so far: <<key, returned value>>

vars == <<pc, box1, box2, result, outcome, cache, glyph, base, drawn, cell, calls>>

----------------------------------------------------------------------------
(* Bounds of the model. *)

\* Overlays drawn onto one cell.
MaxDraw == 4

\* Capacity of the memoization cache.  The source passes 1024 to lru_cache;
\* the least-recently-used policy does not depend on the number, and a small
\* capacity makes evictions happen within MaxDraw calls.
maxsize == 2

----------------------------------------------------------------------------
(* Data model. *)

\* Line styles: 0 no line, 1 thin, 2 heavy, 3 double.
Styles == {0, 1, 2, 3}

\* Directions of a quad, in tuple order: top, right, bottom, left.
Directions == 1..4

\* Quad: tuple[int, int, int, int] restricted to the documented styles.
Quads == {<<t, r, b, l>> : t \in Styles, r \in Styles, b \in Styles, l \in Styles}

\* The key: value pairs of the BOX_CHARACTERS dict display, in source order.
\* Each value is the code point sequence of the string literal.
BoxEntries == <<
    <<<<0, 0, 0, 0>>, <<32>>>>, <<<<0, 0, 0, 1>>, <<9588>>>>, <<<<0, 0, 0, 2>>, <<9592>>>>, <<<<0, 0, 0, 3>>, <<9592>>>>,
    <<<<0, 0, 1, 0>>, <<9591>>>>, <<<<0, 0, 1, 1>>, <<9488>>>>, <<<<0, 0, 1, 2>>, <<9489>>>>, <<<<0, 0, 1, 3>>, <<9557>>>>,
    <<<<0, 0, 2, 0>>, <<9595>>>>, <<<<0, 0, 2, 1>>, <<9490>>>>, <<<<0, 0, 2, 2>>, <<9491>>>>, <<<<0, 0, 2, 3>>, <<9557>>>>,
    <<<<0, 0, 3, 0>>, <<9595>>>>, <<<<0, 0, 3, 1>>, <<9558>>>>, <<<<0, 0, 3, 2>>, <<9558>>>>, <<<<0, 0, 3, 3>>, <<9559>>>>,
    <<<<0, 1, 0, 0>>, <<9590>>>>, <<<<0, 1, 0, 1>>, <<9472>>>>, <<<<0, 1, 0, 2>>, <<9598>>>>, <<<<0, 1, 0, 3>>, <<9596>>>>,
    <<<<0, 1, 1, 0>>, <<9484>>>>, <<<<0, 1, 1, 1>>, <<9516>>>>, <<<<0, 1, 1, 2>>, <<9517>>>>, <<<<0, 1, 1, 3>>, <<9572>>>>,
    <<<<0, 1, 2, 0>>, <<9486>>>>, <<<<0, 1, 2, 1>>, <<9520>>>>, <<<<0, 1, 2, 2>>, <<9521>>>>, <<<<0, 1, 2, 3>>, <<9521>>>>,
    <<<<0, 1, 3, 0>>, <<9555>>>>, <<<<0, 1, 3, 1>>, <<9573>>>>, <<<<0, 1, 3, 2>>, <<9573>>>>, <<<<0, 1, 3, 3>>, <<9573>>>>,
    <<<<0, 2, 0, 0>>, <<9594>>>>, <<<<0, 2, 0, 1>>, <<9596>>>>, <<<<0, 2, 0, 2>>, <<9473>>>>, <<<<0, 2, 0, 3>>, <<9473>>>>,
    <<<<0, 2, 1, 0>>, <<9485>>>>, <<<<0, 2, 1, 1>>, <<9518>>>>, <<<<0, 2, 1, 2>>, <<9519>>>>, <<<<0, 2, 1, 3>>, <<9519>>>>,
    <<<<0, 2, 2, 0>>, <<9487>>>>, <<<<0, 2, 2, 1>>, <<9522>>>>, <<<<0, 2, 2, 2>>, <<9523>>>>, <<<<0, 2, 2, 3>>, <<9574>>>>,
    <<<<0, 2, 3, 0>>, <<9554>>>>, <<<<0, 2, 3, 1>>, <<9573>>>>, <<<<0, 2, 3, 2>>, <<9573>>>>, <<<<0, 2, 3, 3>>, <<9574>>>>,
    <<<<0, 3, 0, 0>>, <<9594>>>>, <<<<0, 3, 0, 1>>, <<9598>>>>, <<<<0, 3, 0, 2>>, <<9598>>>>, <<<<0, 3, 0, 3>>, <<9552>>>>,
    <<<<0, 3, 1, 0>>, <<9554>>>>, <<<<0, 3, 1, 1>>, <<9572>>>>, <<<<0, 3, 1, 2>>, <<9572>>>>, <<<<0, 3, 1, 3>>, <<9572>>>>,
    <<<<0, 3, 2, 0>>, <<9554>>>>, <<<<0, 3, 2, 1>>, <<9572>>>>, <<<<0, 3, 2, 2>>, <<9572>>>>, <<<<0, 3, 2, 3>>, <<9572>>>>,
    <<<<0, 3, 3, 0>>, <<9556>>>>, <<<<0, 3, 3, 1>>, <<9574>>>>, <<<<0, 3, 3, 2>>, <<9574>>>>, <<<<0, 3, 3, 3>>, <<9574>>>>,
    <<<<1, 0, 0, 0>>, <<9589>>>>, <<<<1, 0, 0, 1>>, <<9496>>>>, <<<<1, 0, 0, 2>>, <<9497>>>>, <<<<1, 0, 0, 3>>, <<9563>>>>,
    <<<<1, 0, 1, 0>>, <<9474>>>>, <<<<1, 0, 1, 1>>, <<9508>>>>, <<<<1, 0, 1, 2>>, <<9509>>>>, <<<<1, 0, 1, 3>>, <<9569>>>>,
    <<<<1, 0, 2, 0>>, <<9597>>>>, <<<<1, 0, 2, 1>>, <<9511>>>>, <<<<1, 0, 2, 2>>, <<9514>>>>, <<<<1, 0, 2, 3>>, <<9514>>>>,
    <<<<1, 0, 3, 0>>, <<9597>>>>, <<<<1, 0, 3, 1>>, <<9511>>>>, <<<<1, 0, 3, 2>>, <<9514>>>>, <<<<1, 0, 3, 3>>, <<9514>>>>,
    <<<<1, 1, 0, 0>>, <<9492>>>>, <<<<1, 1, 0, 1>>, <<9524>>>>, <<<<1, 1, 0, 2>>, <<9525>>>>, <<<<1, 1, 0, 3>>, <<9525>>>>,
    <<<<1, 1, 1, 0>>, <<9500>>>>, <<<<1, 1, 1, 1>>, <<9532>>>>, <<<<1, 1, 1, 2>>, <<9533>>>>, <<<<1, 1, 1, 3>>, <<9533>>>>,
    <<<<1, 1, 2, 0>>, <<9503>>>>, <<<<1, 1, 2, 1>>, <<9537>>>>, <<<<1, 1, 2, 2>>, <<9541>>>>, <<<<1, 1, 2, 3>>, <<9541>>>>,
    <<<<1, 1, 3, 0>>, <<9503>>>>, <<<<1, 1, 3, 1>>, <<9537>>>>, <<<<1, 1, 3, 2>>, <<9541>>>>, <<<<1, 1, 3, 3>>, <<9541>>>>,
    <<<<1, 2, 0, 0>>, <<9493>>>>, <<<<1, 2, 0, 1>>, <<9526>>>>, <<<<1, 2, 0, 2>>, <<9527>>>>, <<<<1, 2, 0, 3>>, <<9575>>>>,
    <<<<1, 2, 1, 0>>, <<9501>>>>, <<<<1, 2, 1, 1>>, <<9534>>>>, <<<<1, 2, 1, 2>>, <<9535>>>>, <<<<1, 2, 1, 3>>, <<9535>>>>,
    <<<<1, 2, 2, 0>>, <<9506>>>>, <<<<1, 2, 2, 1>>, <<9542>>>>, <<<<1, 2, 2, 2>>, <<9544>>>>, <<<<1, 2, 2, 3>>, <<9544>>>>,
    <<<<1, 2, 3, 0>>, <<9506>>>>, <<<<1, 2, 3, 1>>, <<9542>>>>, <<<<1, 2, 3, 2>>, <<9544>>>>, <<<<1, 2, 3, 3>>, <<9544>>>>,
    <<<<1, 3, 0, 0>>, <<9560>>>>, <<<<1, 3, 0, 1>>, <<9575>>>>, <<<<1, 3, 0, 2>>, <<9575>>>>, <<<<1, 3, 0, 3>>, <<9575>>>>,
    <<<<1, 3, 1, 0>>, <<9566>>>>, <<<<1, 3, 1, 1>>, <<9580>>>>, <<<<1, 3, 1, 2>>, <<9578>>>>, <<<<1, 3, 1, 3>>, <<9578>>>>,
    <<<<1, 3, 2, 0>>, <<9567>>>>, <<<<1, 3, 2, 1>>, <<9534>>>>, <<<<1, 3, 2, 2>>, <<9534>>>>, <<<<1, 3, 2, 3>>, <<9578>>>>,
    <<<<1, 3, 3, 0>>, <<9566>>>>, <<<<1, 3, 3, 1>>, <<9542>>>>, <<<<1, 3, 3, 2>>, <<9542>>>>, <<<<1, 3, 3, 3>>, <<9544>>>>,
    <<<<2, 0, 0, 0>>, <<9593>>>>, <<<<2, 0, 0, 1>>, <<9498>>>>, <<<<2, 0, 0, 2>>, <<9499>>>>, <<<<2, 0, 0, 3>>, <<9563>>>>,
    <<<<2, 0, 1, 0>>, <<9599>>>>, <<<<2, 0, 1, 1>>, <<9510>>>>, <<<<2, 0, 1, 2>>, <<9513>>>>, <<<<2, 0, 1, 3>>, <<9513>>>>,
    <<<<2, 0, 2, 0>>, <<9475>>>>, <<<<2, 0, 2, 1>>, <<9512>>>>, <<<<2, 0, 2, 2>>, <<9515>>>>, <<<<2, 0, 2, 3>>, <<9570>>>>,
    <<<<2, 0, 3, 0>>, <<9553>>>>, <<<<2, 0, 3, 1>>, <<9570>>>>, <<<<2, 0, 3, 2>>, <<9570>>>>, <<<<2, 0, 3, 3>>, <<9570>>>>,
    <<<<2, 1, 0, 0>>, <<9494>>>>, <<<<2, 1, 0, 1>>, <<9528>>>>, <<<<2, 1, 0, 2>>, <<9529>>>>, <<<<2, 1, 0, 3>>, <<9529>>>>,
    <<<<2, 1, 1, 0>>, <<9502>>>>, <<<<2, 1, 1, 1>>, <<9536>>>>, <<<<2, 1, 1, 2>>, <<9539>>>>, <<<<2, 1, 1, 3>>, <<9539>>>>,
    <<<<2, 1, 2, 0>>, <<9504>>>>, <<<<2, 1, 2, 1>>, <<9538>>>>, <<<<2, 1, 2, 2>>, <<9545>>>>, <<<<2, 1, 2, 3>>, <<9545>>>>,
    <<<<2, 1, 3, 0>>, <<9567>>>>, <<<<2, 1, 3, 1>>, <<9579>>>>, <<<<2, 1, 3, 2>>, <<9579>>>>, <<<<2, 1, 3, 3>>, <<9579>>>>,
    <<<<2, 2, 0, 0>>, <<9495>>>>, <<<<2, 2, 0, 1>>, <<9530>>>>, <<<<2, 2, 0, 2>>, <<9531>>>>, <<<<2, 2, 0, 3>>, <<9531>>>>,
    <<<<2, 2, 1, 0>>, <<9505>>>>, <<<<2, 2, 1, 1>>, <<9540>>>>, <<<<2, 2, 1, 2>>, <<9543>>>>, <<<<2, 2, 1, 3>>, <<9543>>>>,
    <<<<2, 2, 2, 0>>, <<9507>>>>, <<<<2, 2, 2, 1>>, <<9546>>>>, <<<<2, 2, 2, 2>>, <<9547>>>>, <<<<2, 2, 2, 3>>, <<9580>>>>,
    <<<<2, 2, 3, 0>>, <<9568>>>>, <<<<2, 2, 3, 1>>, <<9580>>>>, <<<<2, 2, 3, 2>>, <<9580>>>>, <<<<2, 2, 3, 3>>, <<9580>>>>,
    <<<<2, 3, 0, 0>>, <<9562>>>>, <<<<2, 3, 0, 1>>, <<9577>>>>, <<<<2, 3, 0, 2>>, <<9577>>>>, <<<<2, 3, 0, 3>>, <<9577>>>>,
    <<<<2, 3, 1, 0>>, <<9566>>>>, <<<<2, 3, 1, 1>>, <<9580>>>>, <<<<2, 3, 1, 2>>, <<9580>>>>, <<<<2, 3, 1, 3>>, <<9580>>>>,
    <<<<2, 3, 2, 0>>, <<9566>>>>, <<<<2, 3, 2, 1>>, <<9580>>>>, <<<<2, 3, 2, 2>>, <<9580>>>>, <<<<2, 3, 2, 3>>, <<9580>>>>,
    <<<<2, 3, 3, 0>>, <<9568>>>>, <<<<2, 3, 3, 1>>, <<9580>>>>, <<<<2, 3, 3, 2>>, <<9580>>>>, <<<<2, 3, 3, 3>>, <<9580>>>>,
    <<<<3, 0, 0, 0>>, <<9593>>>>, <<<<3, 0, 0, 1>>, <<9564>>>>, <<<<3, 0, 0, 2>>, <<9564>>>>, <<<<3, 0, 0, 3>>, <<9565>>>>,
    <<<<3, 0, 1, 0>>, <<9599>>>>, <<<<3, 0, 1, 1>>, <<9510>>>>, <<<<3, 0, 1, 2>>, <<9510>>>>, <<<<3, 0, 1, 3>>, <<9513>>>>,
    <<<<3, 0, 2, 0>>, <<9553>>>>, <<<<3, 0, 2, 1>>, <<9570>>>>, <<<<3, 0, 2, 2>>, <<9570>>>>, <<<<3, 0, 2, 3>>, <<9571>>>>,
    <<<<3, 0, 3, 0>>, <<9553>>>>, <<<<3, 0, 3, 1>>, <<9570>>>>, <<<<3, 0, 3, 2>>, <<9570>>>>, <<<<3, 0, 3, 3>>, <<9571>>>>,
    <<<<3, 1, 0, 0>>, <<9561>>>>, <<<<3, 1, 0, 1>>, <<9576>>>>, <<<<3, 1, 0, 2>>, <<9576>>>>, <<<<3, 1, 0, 3>>, <<9577>>>>,
    <<<<3, 1, 1, 0>>, <<9567>>>>, <<<<3, 1, 1, 1>>, <<9580>>>>, <<<<3, 1, 1, 2>>, <<9580>>>>, <<<<3, 1, 1, 3>>, <<9580>>>>,
    <<<<3, 1, 2, 0>>, <<9567>>>>, <<<<3, 1, 2, 1>>, <<9580>>>>, <<<<3, 1, 2, 2>>, <<9580>>>>, <<<<3, 1, 2, 3>>, <<9580>>>>,
    <<<<3, 1, 3, 0>>, <<9567>>>>, <<<<3, 1, 3, 1>>, <<9579>>>>, <<<<3, 1, 3, 2>>, <<9579>>>>, <<<<3, 1, 3, 3>>, <<9545>>>>,
    <<<<3, 2, 0, 0>>, <<9561>>>>, <<<<3, 2, 0, 1>>, <<9576>>>>, <<<<3, 2, 0, 2>>, <<9576>>>>, <<<<3, 2, 0, 3>>, <<9577>>>>,
    <<<<3, 2, 1, 0>>, <<9567>>>>, <<<<3, 2, 1, 1>>, <<9580>>>>, <<<<3, 2, 1, 2>>, <<9580>>>>, <<<<3, 2, 1, 3>>, <<9580>>>>,
    <<<<3, 2, 2, 0>>, <<9567>>>>, <<<<3, 2, 2, 1>>, <<9580>>>>, <<<<3, 2, 2, 2>>, <<9580>>>>, <<<<3, 2, 2, 3>>, <<9580>>>>,
    <<<<3, 2, 3, 0>>, <<9567>>>>, <<<<3, 2, 3, 1>>, <<9579>>>>, <<<<3, 2, 3, 2>>, <<9579>>>>, <<<<3, 2, 3, 3>>, <<9580>>>>,
    <<<<3, 3, 0, 0>>, <<9562>>>>, <<<<3, 3, 0, 1>>, <<9577>>>>, <<<<3, 3, 0, 2>>, <<9577>>>>, <<<<3, 3, 0, 3>>, <<9577>>>>,
    <<<<3, 3, 1, 0>>, <<9568>>>>, <<<<3, 3, 1, 1>>, <<9540>>>>, <<<<3, 3, 1, 2>>, <<9540>>>>, <<<<3, 3, 1, 3>>, <<9543>>>>,
    <<<<3, 3, 2, 0>>, <<9568>>>>, <<<<3, 3, 2, 1>>, <<9580>>>>, <<<<3, 3, 2, 2>>, <<9580>>>>, <<<<3, 3, 2, 3>>, <<9580>>>>,
    <<<<3, 3, 3, 0>>, <<9568>>>>, <<<<3, 3, 3, 1>>, <<9546>>>>, <<<<3, 3, 3, 2>>, <<9580>>>>, <<<<3, 3, 3, 3>>, <<9580>>>>>>

\* A dict display: the keys are those written, and a key written twice keeps
\* the value written last.
DictDisplay(entries) ==
    LET keys == {entries[i][1] : i \in DOMAIN entries}
        last(k) == CHOOSE i \in DOMAIN entries :
                      /\ entries[i][1] = k
                      /\ \A j \in DOMAIN entries : entries[j][1] = k => j <= i
    IN  [k \in keys |-> entries[last(k)][2]]

\* Mutant: the key of the last entry mistyped as (3, 3, 3, 2).
BOX_CHARACTERS_KeyTypo ==
    DictDisplay([BoxEntries EXCEPT ![Len(BoxEntries)] = <<<<3, 3, 3, 2>>, <<9580>>>>])

\* Mutant: the glyph of (1, 2, 1, 1) mistyped as that of (1, 1, 1, 2).
BOX_CHARACTERS_GlyphTypo ==
    [DictDisplay(BoxEntries) EXCEPT ![<<1, 2, 1, 1>>] = <<9533>>]

BOX_CHARACTERS == DictDisplay(BoxEntries)

----------------------------------------------------------------------------
(* combine_quads. *)

\* Python's `a or b` on integers: a when a is truthy (nonzero), otherwise b.
py_or(a, b) == IF a # 0 THEN a ELSE b

\* Mutant: the operands of every `or` swapped, so the existing quad wins.
combine_quads_BaseWins(b1, b2) ==
    <<py_or(b1[1], b2[1]), py_or(b1[2], b2[2]), py_or(b1[3], b2[3]), py_or(b1[4], b2[4])>>

\* Mutant: the fallback to the existing quad forgotten.
combine_quads_NoFallback(b1, b2) ==
    <<b2[1], b2[2], b2[3], b2[4]>>

\* Mutant: the line for `left` copied from the line for `right` and not edited.
combine_quads_CopyPaste(b1, b2) ==
    <<py_or(b2[1], b1[1]), py_or(b2[2], b1[2]), py_or(b2[3], b1[3]), py_or(b2[2], b1[2])>>

\* Mutant: box1 unpacked as bottom1, right1, top1, left1.
combine_quads_UnpackOrder(b1, b2) ==
    <<py_or(b2[1], b1[3]), py_or(b2[2], b1[2]), py_or(b2[3], b1[1]), py_or(b2[4], b1[4])>>

\* Mutant: the styles added instead of chosen.
combine_quads_Sum(b1, b2) ==
    <<b2[1] + b1[1], b2[2] + b1[2], b2[3] + b1[3], b2[4] + b1[4]>>

\* The body of combine_quads: (top2 or top1, right2 or right1, bottom2 or
\* bottom1, left2 or left1), with box1 the existing quad and box2 the new one.
combine_quads(b1, b2) ==
    LET top1 == b1[1]  right1 == b1[2]  bottom1 == b1[3]  left1 == b1[4]
        top2 == b2[1]  right2 == b2[2]  bottom2 == b2[3]  left2 == b2[4]
    IN  <<py_or(top2, top1), py_or(right2, right1),
          py_or(bottom2, bottom1), py_or(left2, left1)>>

----------------------------------------------------------------------------
(* functools.lru_cache(1024) around combine_quads. *)

\* Mutant: the cache keyed on the new quad alone.
make_key_Box2Only(b1, b2) == <<b2>>

\* The cache key of a call with two positional arguments: the argument tuple.
make_key(b1, b2) == <<b1, b2>>

\* Position of key in the cache, 0 when absent.
CacheIndex(c, key) ==
    IF \E i \in DOMAIN c : c[i][1] = key
    THEN CHOOSE i \in DOMAIN c : c[i][1] = key
    ELSE 0

\* s without its i-th element.
Remove(s, i) == SubSeq(s, 1, i - 1) \o SubSeq(s, i + 1, Len(s))

\* One call of the memoized function on cache c. A hit returns the stored
\* value and makes the entry the most recently used; a miss runs
\* combine_quads and stores the value, evicting the least recently used
\* entry when the cache is full.
lru_cache_wrapper(c, b1, b2) ==
    LET key == make_key(b1, b2)
        i   == CacheIndex(c, key)
        r   == combine_quads(b1, b2)
    IN  IF i # 0
        THEN [result |-> c[i][2], cache |-> Append(Remove(c, i), c[i]), outcome |-> "hit"]
        ELSE IF Len(c) >= maxsize
        THEN [result |-> r, cache |-> Append(Tail(c), <<key, r>>), outcome |-> "evict"]
        ELSE [result |-> r, cache |-> Append(c, <<key, r>>), outcome |-> "miss"]

----------------------------------------------------------------------------
(* The caller: a cell whose quad accumulates overlays and is then painted. *)

NoQuad == <<0, 0, 0, 0>>

\* Quads a cell starts with in the progressive-drawing specification.
Bases == {<<0, 0, 0, 0>>, <<0, 1, 0, 1>>, <<1, 1, 1, 1>>, <<3, 3, 3, 3>>}

\* Quads drawn onto a cell in the progressive-drawing specification.
Overlays == {<<0, 0, 0, 0>>, <<1, 0, 1, 0>>, <<0, 2, 0, 0>>, <<1, 1, 1, 1>>, <<2, 0, 0, 3>>}

InitWith(bases) ==
    /\ pc = "idle"
    /\ box1 = NoQuad
    /\ box2 = NoQuad
    /\ result = NoQuad
    /\ outcome = "none"
    /\ cache = <<>>
    /\ glyph = <<>>
    /\ base \in bases
    /\ drawn = <<>>
    /\ cell = base
    /\ calls = <<>>

\* Merge overlay o onto the cell: cell = combine_quads(cell, o).
Draw(o) ==
    /\ pc \in {"idle", "combined", "painted"}
    /\ LET call == lru_cache_wrapper(cache, cell, o)
       IN  /\ box1' = cell
           /\ box2' = o
           /\ result' = call.result
           /\ outcome' = call.outcome
           /\ cache' = call.cache
           /\ cell' = call.result
           /\ calls' = Append(calls, <<cell, o, call.result>>)
    /\ drawn' = Append(drawn, o)
    /\ pc' = "combined"
    /\ UNCHANGED <<glyph, base>>

\* Look the cell's quad up in BOX_CHARACTERS; a missing key raises KeyError.
Paint ==
    /\ pc = "combined"
    /\ IF cell \in DOMAIN BOX_CHARACTERS
       THEN glyph' = BOX_CHARACTERS[cell] /\ pc' = "painted"
       ELSE glyph' = glyph /\ pc' = "KeyError"
    /\ UNCHANGED <<box1, box2, result, outcome, cache, base, drawn, cell, calls>>

\* Progressive drawing: up to MaxDraw overlays merged onto one cell through
\* the cache, painting in between.
Init == InitWith(Bases)

DrawNext == \E o \in Overlays : Len(drawn) < MaxDraw /\ Draw(o)

Next == DrawNext \/ Paint

Spec == Init /\ [][Next]_vars

\* A single call on every pair of quads, then the lookup of its result.
InitPure == InitWith(Quads)

CallNext == \E o \in Quads : drawn = <<>> /\ Draw(o)

NextPure == CallNext \/ Paint

SpecPure == InitPure /\ [][NextPure]_vars

----------------------------------------------------------------------------
(* Properties of a single call (SpecPure). *)

Called == calls # <<>>

\* C1: for every pair of quads with components in 0..3, the returned quad is
\* again such a quad, and in each direction it is the new quad's component
\* when that is nonzero and the existing quad's component otherwise.
C1_MergeRule ==
    Called =>
        /\ result \in Quads
        /\ \A d \in Directions :
              result[d] = IF box2[d] # 0 THEN box2[d] ELSE box1[d]

C1_Witness ==
    /\ pc = "combined"
    /\ box1 = <<1, 2, 3, 0>>
    /\ box2 = <<0, 3, 0, 0>>
    /\ result = <<1, 3, 3, 0>>

\* The dict has exactly the 256 quads over 0..3 as keys and a string of one
\* character as every value.
TableTotal ==
    /\ DOMAIN BOX_CHARACTERS = Quads
    /\ Cardinality(DOMAIN BOX_CHARACTERS) = 256
    /\ \A q \in Quads : Len(BOX_CHARACTERS[q]) = 1

\* C2: BOX_CHARACTERS has exactly the 256 quads over 0..3 as keys, every
\* value is a string of one character, and no lookup of a quad over 0..3
\* raises KeyError or yields anything but one character.
C2_TableTotal ==
    /\ TableTotal
    /\ pc # "KeyError"
    /\ pc = "painted" => Len(glyph) = 1

C2_Witness ==
    /\ pc = "painted"
    /\ cell = <<3, 3, 3, 3>>
    /\ glyph = <<9580>>

\* C3: combining any quad with the all-absent quad (0, 0, 0, 0) as the new
\* quad returns the existing quad unchanged.
C3_RightIdentity ==
    (Called /\ box2 = <<0, 0, 0, 0>>) => result = box1

C3_Witness ==
    /\ pc = "combined"
    /\ box1 = <<3, 3, 3, 3>>
    /\ box2 = <<0, 0, 0, 0>>
    /\ result = <<3, 3, 3, 3>>

\* C4: when every component of the new quad is nonzero, the result is the
\* new quad, whatever the existing quad is.
C4_OverlayWins ==
    (Called /\ \A d \in Directions : box2[d] # 0) => result = box2

C4_Witness ==
    /\ pc = "combined"
    /\ box1 = <<1, 2, 3, 1>>
    /\ box2 = <<3, 1, 2, 2>>
    /\ result = <<3, 1, 2, 2>>

\* C5: changing one direction of the new quad, or one direction of the
\* existing quad, leaves the result unchanged in the other three directions.
C5_Componentwise ==
    pc = "combined" =>
        \A d \in Directions, v \in Styles :
            LET viaOverlay == combine_quads(box1, [box2 EXCEPT ![d] = v])
                viaBase    == combine_quads([box1 EXCEPT ![d] = v], box2)
            IN  \A e \in Directions \ {d} :
                    /\ viaOverlay[e] = result[e]
                    /\ viaBase[e] = result[e]

C5_Witness ==
    /\ pc = "combined"
    /\ box1 = <<1, 1, 1, 1>>
    /\ box2 = <<0, 2, 0, 0>>
    /\ result = <<1, 2, 1, 1>>
    /\ combine_quads(box1, [box2 EXCEPT ![2] = 3]) = <<1, 3, 1, 1>>
    /\ combine_quads([box1 EXCEPT ![1] = 3], box2) = <<3, 2, 1, 1>>

\* C7: the documented scenarios: (0,0,0,0) is painted as a space, (1,1,1,1)
\* as U+253C and (2,2,2,2) as U+254B; (0,1,0,1) with (1,0,1,0) drawn on it is
\* (1,1,1,1), painted as U+253C; (1,1,1,1) with (0,2,0,0) drawn on it is
\* (1,2,1,1), painted as U+253E.
C7_Scenarios ==
    pc = "painted" =>
        /\ result = <<0, 0, 0, 0>> => glyph = <<32>>
        /\ result = <<1, 1, 1, 1>> => glyph = <<9532>>
        /\ result = <<2, 2, 2, 2>> => glyph = <<9547>>
        /\ (box1 = <<0, 1, 0, 1>> /\ box2 = <<1, 0, 1, 0>>) =>
              (result = <<1, 1, 1, 1>> /\ glyph = <<9532>>)
        /\ (box1 = <<1, 1, 1, 1>> /\ box2 = <<0, 2, 0, 0>>) =>
              (result = <<1, 2, 1, 1>> /\ glyph = <<9534>>)

C7_Witness ==
    /\ pc = "painted"
    /\ box1 = <<1, 1, 1, 1>>
    /\ box2 = <<0, 2, 0, 0>>
    /\ cell = <<1, 2, 1, 1>>
    /\ glyph = <<9534>>

\* C10: merging is associative: for all quads a, b, c, drawing c on the
\* result of drawing b on a equals drawing on a the result of drawing c on b.
C10_Associative ==
    pc = "combined" =>
        \A c \in Quads :
            combine_quads(result, c) = combine_quads(box1, combine_quads(box2, c))

C10_Witness ==
    /\ pc = "combined"
    /\ box1 = <<1, 0, 2, 0>>
    /\ box2 = <<0, 3, 0, 0>>
    /\ result = <<1, 3, 2, 0>>
    /\ combine_quads(result, <<0, 0, 1, 1>>) = <<1, 3, 1, 1>>

----------------------------------------------------------------------------
(* Properties of progressive drawing through the cache (Spec). *)

\* C6: every call through the cache, hit or miss, before or after evictions,
\* returns what the uncached rule returns for its arguments; calls with the
\* same arguments return equal quads; a hit repeats an earlier call.
C6_CacheTransparent ==
    /\ \A i \in DOMAIN calls : calls[i][3] = combine_quads(calls[i][1], calls[i][2])
    /\ \A i, j \in DOMAIN calls :
          (calls[i][1] = calls[j][1] /\ calls[i][2] = calls[j][2]) => calls[i][3] = calls[j][3]
    /\ outcome = "hit" =>
          \E i \in 1..(Len(calls) - 1) :
              /\ calls[i][1] = box1
              /\ calls[i][2] = box2
              /\ calls[i][3] = result
    /\ Len(cache) <= maxsize

\* A hit after more distinct argument pairs than the cache holds.
C6_Witness ==
    /\ outcome = "hit"
    /\ Len(cache) = maxsize
    /\ Cardinality({<<calls[i][1], calls[i][2]>> : i \in DOMAIN calls}) > maxsize
    /\ result # box2

\* The overlay value last written in direction d, or the base's value.
LastWrite(d) ==
    LET written == {k \in DOMAIN drawn : drawn[k][d] # 0}
    IN  IF written = {}
        THEN base[d]
        ELSE drawn[CHOOSE k \in written : \A j \in written : j <= k][d]

LastWriteWins == \A d \in Directions : cell[d] = LastWrite(d)

NeverErased == \A d \in Directions : cell[d] # 0 => cell'[d] # 0

\* C8: after every overlay, each direction of the cell holds the most recent
\* nonzero overlay value for that direction, or the base's value when there
\* is none; and no step turns a drawn direction back to 0.
C8_LastWriteWins == [](LastWriteWins) /\ [][NeverErased]_vars

\* Direction top written thin, overwritten heavy, then left alone.
C8_Witness ==
    /\ Len(drawn) = 3
    /\ drawn[1][1] = 1
    /\ drawn[2][1] = 2
    /\ drawn[3][1] = 0
    /\ cell[1] = 2
    /\ base[1] = 3

\* C9: every quad a cell takes has its components in 0..3 and a glyph in
\* BOX_CHARACTERS, so does the result of drawing any quad over 0..3 on it,
\* and painting never raises KeyError.
C9_Closure ==
    /\ cell \in Quads
    /\ cell \in DOMAIN BOX_CHARACTERS
    /\ \A o \in Quads : combine_quads(cell, o) \in DOMAIN BOX_CHARACTERS
    /\ pc # "KeyError"
    /\ pc = "painted" => glyph = BOX_CHARACTERS[cell]

C9_Witness ==
    /\ pc = "painted"
    /\ Len(drawn) = 3
    /\ base = <<0, 1, 0, 1>>
    /\ cell = <<2, 2, 1, 3>>
    /\ glyph = BOX_CHARACTERS[<<2, 2, 1, 3>>]

====
